---- MODULE Spec2Model ----
(***************************************************************************)
(* Orb GPU particles (src/scripts.js): the host program (pointer handlers, *)
(* particle generation, control panel handlers, animation loop, resize)    *)
(* and the two shader stages it submits to the GPU.                        *)
(*                                                                         *)
(* JavaScript numbers and GLSL floats are modelled as exact rationals      *)
(* <<numerator, denominator>> in lowest terms with a positive denominator; *)
(* <<0, 0>> is NaN (the result of 0/0).                                    *)
(***************************************************************************)
EXTENDS Integers, Sequences, FiniteSets, TLC

VARIABLES window, camera, rendererSize, heap, scene, geometry, material,
          particleOrb, PARTICLE_COUNT, params, bodyBackground, elapsed,
          drawCall, trace, randomLog, vertex, fragment

vars == <<window, camera, rendererSize, heap, scene, geometry, material,
          particleOrb, PARTICLE_COUNT, params, bodyBackground, elapsed,
          drawCall, trace, randomLog, vertex, fragment>>

hostVars == <<window, camera, rendererSize, heap, scene, geometry, material,
              particleOrb, PARTICLE_COUNT, params, bodyBackground, elapsed,
              drawCall, trace, randomLog>>

(***************************************************************************)
(* Bounds of the model.                                                    *)
(***************************************************************************)
\* The particle-count slider, in model particles: its range and the initial
\* PARTICLE_COUNT are scaled down so that a field can be enumerated.
MinCount == 1
DefaultCount == 2
MaxCount == 2
\* The clock is followed up to this reading.
MaxTime == 1
\* Screen positions handed to the vertex stage lie on the grid of tenths
\* within [-GridMax/10, GridMax/10] on both axes.
GridMax == 8
\* gl_PointCoord is sampled on a grid of 2 * PointCoordHalfSteps steps per axis.
PointCoordHalfSteps == 50

(***************************************************************************)
(* Number arithmetic.                                                      *)
(***************************************************************************)
Abs(n) == IF n < 0 THEN -n ELSE n

RECURSIVE Gcd(_, _)
Gcd(a, b) == IF b = 0 THEN a ELSE Gcd(b, a % b)

NaN == <<0, 0>>

IsNaN(q) == q[2] = 0

Q(n, d) ==
    IF d = 0 THEN NaN
    ELSE LET g == Gcd(Abs(n), Abs(d))
             s == IF d < 0 THEN -1 ELSE 1
         IN  <<(s * n) \div g, (s * d) \div g>>

Num(n) == Q(n, 1)

RAdd(a, b) ==
    IF IsNaN(a) \/ IsNaN(b) THEN NaN
    ELSE LET g == Gcd(a[2], b[2])
         IN  Q(a[1] * (b[2] \div g) + b[1] * (a[2] \div g), a[2] * (b[2] \div g))

RNeg(a) == IF IsNaN(a) THEN NaN ELSE <<-a[1], a[2]>>

RSub(a, b) == RAdd(a, RNeg(b))

RMul(a, b) == IF IsNaN(a) \/ IsNaN(b) THEN NaN ELSE Q(a[1] * b[1], a[2] * b[2])

\* x / 0 is NaN for x = 0; the model never divides a non-zero number by zero.
RDiv(a, b) == IF IsNaN(a) \/ IsNaN(b) THEN NaN ELSE Q(a[1] * b[2], a[2] * b[1])

\* Comparisons with NaN are false, as in IEEE 754.
RLess(a, b) == ~IsNaN(a) /\ ~IsNaN(b) /\ a[1] * b[2] < b[1] * a[2]

RLeq(a, b) == ~IsNaN(a) /\ ~IsNaN(b) /\ a[1] * b[2] <= b[1] * a[2]

(***************************************************************************)
(* Object identities.  The heap maps the identity of every object the      *)
(* program can still reach to its fields.                                  *)
(***************************************************************************)
Null == 0

\* const mouse = new THREE.Vector2(0, 0): the one Vector2 of the program.
mouse == 1

FirstId == 2

Vector2(x, y) == [kind |-> "Vector2", x |-> x, y |-> y]

\* Ids not used by heap h, smallest first.
FreshId(h) == CHOOSE i \in FirstId..(FirstId + Cardinality(DOMAIN h)) :
                 i \notin DOMAIN h /\ \A j \in FirstId..(i - 1) : j \in DOMAIN h

Alloc(h, id, obj) == [i \in DOMAIN h \cup {id} |-> IF i = id THEN obj ELSE h[i]]


\* The heap restricted to what the roots still reach, identities renumbered
\* in order from FirstId (an unreachable object cannot be observed, and an
\* identity carries no meaning beyond being distinct).
Collect(m) ==
    LET pts   == ({m.particleOrb} \cup {m.scene[k] : k \in DOMAIN m.scene}) \ {Null}
        live  == (pts \cup {m.heap[p].geometry : p \in pts}
                      \cup {m.heap[p].material : p \in pts}
                      \cup {m.geometry, m.material}) \ {Null}
        rn(i) == IF i < FirstId THEN i
                 ELSE FirstId - 1 + Cardinality({j \in live : j <= i})
        inv(k) == CHOOSE i \in live \cup {mouse} : rn(i) = k
        move(o) == IF o.kind = "Points"
                   THEN [o EXCEPT !.geometry = rn(@), !.material = rn(@)]
                   ELSE o
    IN  [m EXCEPT !.heap = [k \in {rn(i) : i \in live \cup {mouse}} |-> move(m.heap[inv(k)])],
                  !.scene = [k \in DOMAIN m.scene |-> rn(m.scene[k])],
                  !.geometry = rn(@),
                  !.material = rn(@),
                  !.particleOrb = rn(@)]

(***************************************************************************)
(* Pointer input: client pixels to normalized device coordinates.          *)
(***************************************************************************)
\* Variant of NdcX with the sign of NdcY.
NdcXFlipped(clientX, innerWidth) ==
    RAdd(RMul(RNeg(RDiv(Num(clientX), Num(innerWidth))), Num(2)), Num(1))

NdcX(clientX, innerWidth) ==
    RSub(RMul(RDiv(Num(clientX), Num(innerWidth)), Num(2)), Num(1))

NdcY(clientY, innerHeight) ==
    RAdd(RMul(RNeg(RDiv(Num(clientY), Num(innerHeight))), Num(2)), Num(1))

(***************************************************************************)
(* Colours.  A hex colour string "#rrggbb" is the sequence of its six hex  *)
(* digits; THREE.Color holds the three channels as numbers in [0, 1].      *)
(***************************************************************************)
Hex_ff0080 == <<15, 15, 0, 0, 8, 0>>
Hex_00ffff == <<0, 0, 15, 15, 15, 15>>
Hex_0a0a0a == <<0, 10, 0, 10, 0, 10>>
Hex_ffffff == <<15, 15, 15, 15, 15, 15>>
Hex_00ff00 == <<0, 0, 15, 15, 0, 0>>
Hex_ffff00 == <<15, 15, 15, 15, 0, 0>>

\* THREE.Color(hex) and Color.set(hex): each pair of digits is one channel.
Color(hex) == [r |-> Q(16 * hex[1] + hex[2], 255),
               g |-> Q(16 * hex[3] + hex[4], 255),
               b |-> Q(16 * hex[5] + hex[6], 255)]

(***************************************************************************)
(* Particle generation.  Math.random() results are read from a stream      *)
(* rnd, four per particle in the order the loop draws them.  Angles are in *)
(* units of pi; the transcendental functions are tabulated at the points   *)
(* where their values are rational.                                        *)
(***************************************************************************)
arrangementRadius == Q(15, 10)

SinPi(a) == CASE a = <<0, 1>> -> <<0, 1>>
              [] a = <<1, 2>> -> <<1, 1>>
              [] a = <<1, 1>> -> <<0, 1>>
              [] a = <<3, 2>> -> <<-1, 1>>

CosPi(a) == CASE a = <<0, 1>> -> <<1, 1>>
              [] a = <<1, 2>> -> <<0, 1>>
              [] a = <<1, 1>> -> <<-1, 1>>
              [] a = <<3, 2>> -> <<0, 1>>

AcosPi(c) == CASE c = <<1, 1>>  -> <<0, 1>>
               [] c = <<0, 1>>  -> <<1, 2>>
               [] c = <<-1, 1>> -> <<1, 1>>

Cbrt(v) == CASE v = <<0, 1>>   -> <<0, 1>>
             [] v = <<1, 64>>  -> <<1, 4>>
             [] v = <<1, 8>>   -> <<1, 2>>
             [] v = <<27, 64>> -> <<3, 4>>

\* The Math.random() results one loop iteration draws (for theta, phi, r and
\* the seed, in this order), as the model samples them.
DrawsA == <<<<0, 1>>, <<1, 2>>, <<1, 8>>, <<1, 4>>>>
DrawsB == <<<<1, 2>>, <<1, 2>>, <<1, 8>>, <<3, 4>>>>

RECURSIVE Flatten(_)
Flatten(ss) == IF ss = <<>> THEN <<>> ELSE Head(ss) \o Flatten(Tail(ss))

\* The streams of 4 * count Math.random() results the model draws: the
\* iterations draw DrawsA and DrawsB in turn, starting with either.
RandomStreams(count) ==
    {Flatten([i \in 1..count |-> IF i % 2 = k THEN DrawsA ELSE DrawsB]) : k \in {0, 1}}

Push3(a, x, y, z) == Append(Append(Append(a, x), y), z)

\* Variant of the loop that pushes only x and y to restingPositions.
RECURSIVE GenerateLoopSkewed(_, _, _, _)
GenerateLoopSkewed(i, count, rnd, acc) ==
    IF ~(i < count) THEN acc
    ELSE LET theta == RMul(rnd[4 * i + 1], Num(2))
             phi   == AcosPi(RSub(RMul(rnd[4 * i + 2], Num(2)), Num(1)))
             r     == RMul(arrangementRadius, Cbrt(rnd[4 * i + 3]))
             x     == RMul(RMul(r, SinPi(phi)), CosPi(theta))
             y     == RMul(RMul(r, SinPi(phi)), SinPi(theta))
             z     == RMul(r, CosPi(phi))
         IN  GenerateLoopSkewed(i + 1, count, rnd,
                 [positions        |-> Push3(acc.positions, x, y, z),
                  restingPositions |-> Append(Append(acc.restingPositions, x), y),
                  randoms          |-> Append(acc.randoms, rnd[4 * i + 4])])

\* The loop of createParticles, from iteration i (0-based) on.
RECURSIVE GenerateLoop(_, _, _, _)
GenerateLoop(i, count, rnd, acc) ==
    IF ~(i < count) THEN acc
    ELSE LET theta == RMul(rnd[4 * i + 1], Num(2))
             phi   == AcosPi(RSub(RMul(rnd[4 * i + 2], Num(2)), Num(1)))
             r     == RMul(arrangementRadius, Cbrt(rnd[4 * i + 3]))
             x     == RMul(RMul(r, SinPi(phi)), CosPi(theta))
             y     == RMul(RMul(r, SinPi(phi)), SinPi(theta))
             z     == RMul(r, CosPi(phi))
         IN  GenerateLoop(i + 1, count, rnd,
                 [positions        |-> Push3(acc.positions, x, y, z),
                  restingPositions |-> Push3(acc.restingPositions, x, y, z),
                  randoms          |-> Append(acc.randoms, rnd[4 * i + 4])])

\* new THREE.Float32BufferAttribute(array, itemSize); its count is
\* array.length / itemSize.  The sampled values are dyadic rationals, which
\* a Float32Array holds exactly.
Float32BufferAttribute(array, itemSize) ==
    [array |-> array, itemSize |-> itemSize, count |-> Q(Len(array), itemSize)]


(***************************************************************************)
(* createParticles.  It works on the program's object state                *)
(*   m = [heap, scene, geometry, material, particleOrb, trace]             *)
(* one statement group after the other; trace lists the calls made on the  *)
(* scene and on the GPU resources, in order.                               *)
(***************************************************************************)
SeqRemove(s, e) ==
    IF \E k \in DOMAIN s : s[k] = e
    THEN LET k == CHOOSE j \in DOMAIN s : s[j] = e /\ \A l \in 1..(j - 1) : s[l] # e
         IN  SubSeq(s, 1, k - 1) \o SubSeq(s, k + 1, Len(s))
    ELSE s

\* Variant of DisposePrevious that leaves the previous object in the scene.
DisposePreviousKeepInScene(m) ==
    IF m.particleOrb # Null
    THEN [m EXCEPT !.heap  = [@ EXCEPT ![m.geometry].disposed = TRUE,
                                       ![m.material].disposed = TRUE],
                   !.trace = @ \o <<"geometry.dispose", "material.dispose">>]
    ELSE m

\* if (particleOrb) { scene.remove(particleOrb); geometry.dispose(); material.dispose(); }
DisposePrevious(m) ==
    IF m.particleOrb # Null
    THEN [m EXCEPT !.scene = SeqRemove(@, m.particleOrb),
                   !.heap  = [@ EXCEPT ![m.geometry].disposed = TRUE,
                                       ![m.material].disposed = TRUE],
                   !.trace = @ \o <<"scene.remove", "geometry.dispose", "material.dispose">>]
    ELSE m

\* geometry = new THREE.BufferGeometry(); the loop; the three setAttribute calls.
BuildGeometry(m, count, rnd) ==
    LET id  == FreshId(m.heap)
        acc == GenerateLoop(0, count, rnd,
                   [positions |-> <<>>, restingPositions |-> <<>>, randoms |-> <<>>])
    IN  [m EXCEPT !.geometry = id,
                  !.heap = Alloc(@, id,
                      [kind |-> "BufferGeometry",
                       disposed |-> FALSE,
                       attributes |->
                         [position        |-> Float32BufferAttribute(acc.positions, 3),
                          restingPosition |-> Float32BufferAttribute(acc.restingPositions, 3),
                          aRandom         |-> Float32BufferAttribute(acc.randoms, 1)]]),
                  !.trace = Append(@, "new BufferGeometry")]

\* material = new THREE.ShaderMaterial({uniforms: ...}); uMouse holds the
\* mouse object itself, not a copy of it.
BuildMaterial(m) ==
    LET id == FreshId(m.heap)
    IN  [m EXCEPT !.material = id,
                  !.heap = Alloc(@, id,
                      [kind |-> "ShaderMaterial",
                       disposed |-> FALSE,
                       uniforms |->
                         [uTime              |-> Num(0),
                          uMouse             |-> mouse,
                          uInteractionRadius |-> Q(8, 10),
                          uRepulsionStrength |-> Q(5, 10),
                          uColor1            |-> Color(Hex_ff0080),
                          uColor2            |-> Color(Hex_00ffff)]]),
                  !.trace = Append(@, "new ShaderMaterial")]

\* particleOrb = new THREE.Points(geometry, material); scene.add(particleOrb);
AddPoints(m) ==
    LET id == FreshId(m.heap)
    IN  [m EXCEPT !.particleOrb = id,
                  !.heap = Alloc(@, id,
                      [kind |-> "Points", geometry |-> m.geometry,
                       material |-> m.material, rotationY |-> Num(0)]),
                  !.scene = Append(@, id),
                  !.trace = @ \o <<"new Points", "scene.add">>]

\* Variant of createParticles that builds and installs the new field first
\* and releases the previous one last.
createParticlesReleaseLast(m, count, rnd) ==
    LET built == AddPoints(BuildMaterial(BuildGeometry(
                     [m EXCEPT !.trace = <<>>], count, rnd)))
    IN  Collect(IF m.particleOrb # Null
                THEN [built EXCEPT
                        !.scene = SeqRemove(@, m.particleOrb),
                        !.heap  = [@ EXCEPT ![m.geometry].disposed = TRUE,
                                            ![m.material].disposed = TRUE],
                        !.trace = @ \o <<"scene.remove", "geometry.dispose",
                                         "material.dispose">>]
                ELSE built)

createParticles(m, count, rnd) ==
    Collect(AddPoints(BuildMaterial(BuildGeometry(
        DisposePrevious([m EXCEPT !.trace = <<>>]), count, rnd))))

(***************************************************************************)
(* renderer.render(scene, camera): one draw per object of the scene, of as *)
(* many points as the object's position attribute counts, with the uniform *)
(* values its material holds at that moment.                               *)
(***************************************************************************)
NoDraw == [issued |-> FALSE, objects |-> <<>>]

DrawObject(h, p) ==
    LET g == h[h[p].geometry]
        u == h[h[p].material].uniforms
    IN  [object             |-> p,
         geometry           |-> h[p].geometry,
         material           |-> h[p].material,
         count              |-> g.attributes.position.count,
         restingPosition    |-> g.attributes.restingPosition.array,
         aRandom            |-> g.attributes.aRandom.array,
         geometryDisposed   |-> g.disposed,
         materialDisposed   |-> h[h[p].material].disposed,
         uTime              |-> u.uTime,
         uMouse             |-> <<h[u.uMouse].x, h[u.uMouse].y>>,
         uInteractionRadius |-> u.uInteractionRadius,
         uRepulsionStrength |-> u.uRepulsionStrength,
         uColor1            |-> u.uColor1,
         uColor2            |-> u.uColor2]

Render(h, sc) == [issued |-> TRUE, objects |-> [k \in DOMAIN sc |-> DrawObject(h, sc[k])]]

\* Variant of Frame that also moves the first resting coordinate.
FrameDrift(h, mat, orb, sc, elapsedTime) ==
    LET h1 == [h EXCEPT ![mat].uniforms.uTime = elapsedTime,
                        ![h[orb].geometry].attributes.restingPosition.array[1] =
                            RAdd(@, Q(1, 100))]
        um == h1[mat].uniforms.uMouse
        h2 == [h1 EXCEPT ![um].x = h1[mouse].x, ![um].y = h1[mouse].y]
        h3 == [h2 EXCEPT ![orb].rotationY = RMul(elapsedTime, Q(5, 100))]
    IN  [heap |-> h3, draw |-> Render(h3, sc)]

\* The body of animate().
Frame(h, mat, orb, sc, elapsedTime) ==
    LET h1 == [h EXCEPT ![mat].uniforms.uTime = elapsedTime]
        um == h1[mat].uniforms.uMouse
        h2 == [h1 EXCEPT ![um].x = h1[mouse].x, ![um].y = h1[mouse].y]
        h3 == [h2 EXCEPT ![orb].rotationY = RMul(elapsedTime, Q(5, 100))]
    IN  [heap |-> h3, draw |-> Render(h3, sc)]

(***************************************************************************)
(* The inputs the model draws.                                             *)
(***************************************************************************)
\* window.innerWidth, window.innerHeight
WindowSizes == {<<4, 2>>, <<8, 4>>}
\* event.clientX, event.clientY
Pointers == {<<3, 0>>}
Counts == MinCount..MaxCount
BackgroundColors == {Hex_ffffff}
Color1s == {Hex_ff0080, Hex_00ff00}
Color2s == {Hex_00ffff, Hex_ffff00}
\* Slider positions of interactionRadius and repulsionStrength (0.1 to 2 by 0.1).
Radii == {Q(8, 10), Q(12, 10)}
Strengths == {Q(5, 10), Q(10, 10)}


(***************************************************************************)
(* The host program.  drawCall is the draw the step leading to the state   *)
(* submitted (NoDraw when that step was not a frame); elapsed is the last  *)
(* reading of the clock, which only animate() reads; randomLog is the      *)
(* Math.random() stream the last createParticles consumed.                 *)
(***************************************************************************)
Idle == [pc |-> "idle"]

Machine == [heap |-> heap, scene |-> scene, geometry |-> geometry,
            material |-> material, particleOrb |-> particleOrb, trace |-> trace]

\* The state once the script has run to its end: createParticles(), the
\* params object, and the first call of animate().
HostInit ==
    \E size \in WindowSizes, rnd \in RandomStreams(DefaultCount) :
      \E m \in {createParticles(
                   [heap |-> (mouse :> Vector2(Num(0), Num(0))), scene |-> <<>>,
                    geometry |-> Null, material |-> Null, particleOrb |-> Null,
                    trace |-> <<>>], DefaultCount, rnd)} :
        \E f \in {Frame(m.heap, m.material, m.particleOrb, m.scene, Num(0))} :
            /\ window = [innerWidth |-> size[1], innerHeight |-> size[2]]
            /\ camera = [aspect |-> Q(size[1], size[2])]
            /\ rendererSize = size
            /\ PARTICLE_COUNT = DefaultCount
            /\ heap = f.heap
            /\ scene = m.scene
            /\ geometry = m.geometry
            /\ material = m.material
            /\ particleOrb = m.particleOrb
            /\ trace = m.trace
            /\ randomLog = rnd
            /\ params = [particleCount     |-> DefaultCount,
                         backgroundColor   |-> Hex_0a0a0a,
                         color1            |-> Hex_ff0080,
                         color2            |-> Hex_00ffff,
                         interactionRadius |-> Q(8, 10),
                         repulsionStrength |-> Q(5, 10)]
            /\ bodyBackground = <<>>
            /\ elapsed = 0
            /\ drawCall = f.draw

Init == HostInit /\ vertex = Idle /\ fragment = Idle

\* window "mousemove"
MouseMove(clientX, clientY) ==
    /\ heap' = [heap EXCEPT ![mouse].x = NdcX(clientX, window.innerWidth),
                            ![mouse].y = NdcY(clientY, window.innerHeight)]
    /\ drawCall' = NoDraw
    /\ UNCHANGED <<window, camera, rendererSize, scene, geometry, material,
                   particleOrb, PARTICLE_COUNT, params, bodyBackground, elapsed,
                   trace, randomLog, vertex, fragment>>

\* window "mouseleave": mouse.set(0, 0)
MouseLeave ==
    /\ heap' = [heap EXCEPT ![mouse].x = Num(0), ![mouse].y = Num(0)]
    /\ drawCall' = NoDraw
    /\ UNCHANGED <<window, camera, rendererSize, scene, geometry, material,
                   particleOrb, PARTICLE_COUNT, params, bodyBackground, elapsed,
                   trace, randomLog, vertex, fragment>>

\* "Particle Count" onFinishChange: the controller has written n to
\* params.particleCount.
ParticleCountFinishChange(n, rnd) ==
    \E m \in {createParticles(Machine, n, rnd)} :
        /\ params' = [params EXCEPT !.particleCount = n]
        /\ PARTICLE_COUNT' = n
        /\ heap' = m.heap
        /\ scene' = m.scene
        /\ geometry' = m.geometry
        /\ material' = m.material
        /\ particleOrb' = m.particleOrb
        /\ trace' = m.trace
        /\ randomLog' = rnd
        /\ drawCall' = NoDraw
        /\ UNCHANGED <<window, camera, rendererSize, bodyBackground, elapsed,
                       vertex, fragment>>

\* "Background Color" onChange
BackgroundColorChange(c) ==
    /\ params' = [params EXCEPT !.backgroundColor = c]
    /\ bodyBackground' = c
    /\ drawCall' = NoDraw
    /\ UNCHANGED <<window, camera, rendererSize, heap, scene, geometry, material,
                   particleOrb, PARTICLE_COUNT, elapsed, trace,
                   randomLog, vertex, fragment>>

\* "Particle Color 1" onChange
Color1Change(c) ==
    /\ params' = [params EXCEPT !.color1 = c]
    /\ heap' = [heap EXCEPT ![material].uniforms.uColor1 = Color(c)]
    /\ drawCall' = NoDraw
    /\ UNCHANGED <<window, camera, rendererSize, scene, geometry, material,
                   particleOrb, PARTICLE_COUNT, bodyBackground, elapsed,
                   trace, randomLog, vertex, fragment>>

\* "Particle Color 2" onChange
Color2Change(c) ==
    /\ params' = [params EXCEPT !.color2 = c]
    /\ heap' = [heap EXCEPT ![material].uniforms.uColor2 = Color(c)]
    /\ drawCall' = NoDraw
    /\ UNCHANGED <<window, camera, rendererSize, scene, geometry, material,
                   particleOrb, PARTICLE_COUNT, bodyBackground, elapsed,
                   trace, randomLog, vertex, fragment>>

\* "Interaction Radius" onChange
InteractionRadiusChange(r) ==
    /\ params' = [params EXCEPT !.interactionRadius = r]
    /\ heap' = [heap EXCEPT ![material].uniforms.uInteractionRadius = r]
    /\ drawCall' = NoDraw
    /\ UNCHANGED <<window, camera, rendererSize, scene, geometry, material,
                   particleOrb, PARTICLE_COUNT, bodyBackground, elapsed,
                   trace, randomLog, vertex, fragment>>

\* "Repulsion Strength" onChange
RepulsionStrengthChange(v) ==
    /\ params' = [params EXCEPT !.repulsionStrength = v]
    /\ heap' = [heap EXCEPT ![material].uniforms.uRepulsionStrength = v]
    /\ drawCall' = NoDraw
    /\ UNCHANGED <<window, camera, rendererSize, scene, geometry, material,
                   particleOrb, PARTICLE_COUNT, bodyBackground, elapsed,
                   trace, randomLog, vertex, fragment>>

\* Variant of animate that leaves uTime as the material holds it.
animateStaleTime(now) ==
    \E f \in {Frame(heap, material, particleOrb, scene, heap[material].uniforms.uTime)} :
        /\ elapsed' = now
        /\ heap' = f.heap
        /\ drawCall' = f.draw
        /\ UNCHANGED <<window, camera, rendererSize, scene, geometry, material,
                       particleOrb, PARTICLE_COUNT, params, bodyBackground,
                       trace, randomLog, vertex, fragment>>

\* animate(), called back by requestAnimationFrame, the clock reading now.
animate(now) ==
    \E elapsedTime \in {Num(now)} :
    \E f \in {Frame(heap, material, particleOrb, scene, elapsedTime)} :
        /\ elapsed' = now
        /\ heap' = f.heap
        /\ drawCall' = f.draw
        /\ UNCHANGED <<window, camera, rendererSize, scene, geometry, material,
                       particleOrb, PARTICLE_COUNT, params, bodyBackground,
                       trace, randomLog, vertex, fragment>>

\* window "resize", the window now being of the given size.
onWindowResize(size) ==
    /\ window' = [innerWidth |-> size[1], innerHeight |-> size[2]]
    /\ camera' = [camera EXCEPT !.aspect = Q(size[1], size[2])]
    /\ rendererSize' = size
    /\ drawCall' = NoDraw
    /\ UNCHANGED <<heap, scene, geometry, material, particleOrb, PARTICLE_COUNT,
                   params, bodyBackground, elapsed, trace,
                   randomLog, vertex, fragment>>

Next ==
    \/ \E p \in Pointers : MouseMove(p[1], p[2])
    \/ MouseLeave
    \/ \E n \in Counts : \E rnd \in RandomStreams(n) : ParticleCountFinishChange(n, rnd)
    \/ \E c \in BackgroundColors : BackgroundColorChange(c)
    \/ \E c \in Color1s : Color1Change(c)
    \/ \E c \in Color2s : Color2Change(c)
    \/ \E r \in Radii : InteractionRadiusChange(r)
    \/ \E v \in Strengths : RepulsionStrengthChange(v)
    \/ \E now \in elapsed..MaxTime : animate(now)
    \/ \E size \in WindowSizes : onWindowResize(size)

Spec == Init /\ [][Next]_vars


(***************************************************************************)
(* The vertex stage, from the screen position of the resting position      *)
(* (the result of the projection and of the perspective divide) to the     *)
(* displaced finalPosition.xy.  A vector is a pair of numbers.             *)
(***************************************************************************)
IsSquare(n) == \E k \in 0..n : k * k = n

ISqrt(n) == CHOOSE k \in 0..n : k * k = n

\* sqrt, on the numbers whose root is rational.
Sqrt(q) == IF IsNaN(q) THEN NaN ELSE <<ISqrt(q[1]), ISqrt(q[2])>>

HasSqrt(q) == ~IsNaN(q) /\ q[1] >= 0 /\ IsSquare(q[1]) /\ IsSquare(q[2])

VSub(a, b) == <<RSub(a[1], b[1]), RSub(a[2], b[2])>>

VAdd(a, b) == <<RAdd(a[1], b[1]), RAdd(a[2], b[2])>>

VScale(a, k) == <<RMul(a[1], k), RMul(a[2], k)>>

SquaredLength(v) == RAdd(RMul(v[1], v[1]), RMul(v[2], v[2]))

\* GLSL length(v)
Length(v) == Sqrt(SquaredLength(v))

\* GLSL normalize(v) = v / length(v), as a set of results: the result for a
\* vector of length 0 is undefined, and is NaN (0/0) on some GPUs and the
\* zero vector on others.
Normalize(v) ==
    IF Length(v) = Num(0)
    THEN {<<NaN, NaN>>, <<Num(0), Num(0)>>}
    ELSE {<<RDiv(v[1], Length(v)), RDiv(v[2], Length(v))>>}

\* Variant of RepulsionMagnitude without the linear falloff.
RepulsionMagnitudeStep(distance, uInteractionRadius, uRepulsionStrength) ==
    IF RLess(distance, uInteractionRadius) THEN uRepulsionStrength ELSE Num(0)

\* The local repulsionStrength of main(): the magnitude of the displacement.
RepulsionMagnitude(distance, uInteractionRadius, uRepulsionStrength) ==
    IF RLess(distance, uInteractionRadius)
    THEN RMul(RSub(Num(1), RDiv(distance, uInteractionRadius)), uRepulsionStrength)
    ELSE Num(0)

\* Screen positions and cursor positions, in twentieths.
Grid == {Q(k, 20) : k \in (-GridMax)..GridMax}
ScreenPositions == Grid \X Grid
CursorPositions == {<<Num(0), Num(0)>>, <<Q(1, 10), Q(1, 10)>>}
RestingXYs == {<<Q(3, 4), Num(0)>>}
\* Slider positions of interactionRadius and repulsionStrength.
VertexRadii == {Q(1, 10), Q(4, 10), Q(8, 10)}
VertexStrengths == {Q(1, 10), Q(5, 10), Q(20, 10)}

\* The vertex invocations the model runs: those whose distance is rational.
VertexInputs ==
    {[pc |-> "in", screenXY |-> sp, restingXY |-> rp, uMouse |-> c,
      uInteractionRadius |-> r, uRepulsionStrength |-> v] :
        sp \in {p \in ScreenPositions : \E c \in CursorPositions :
                   HasSqrt(SquaredLength(VSub(p, c)))},
        rp \in RestingXYs, c \in CursorPositions,
        r \in VertexRadii, v \in VertexStrengths}

VertexInit ==
    /\ HostInit
    /\ vertex \in {i \in VertexInputs : HasSqrt(SquaredLength(VSub(i.screenXY, i.uMouse)))}
    /\ fragment = Idle

\* Lines 46 to 56 of main().
ShadeVertex ==
    /\ vertex.pc = "in"
    /\ \E distance \in {Length(VSub(vertex.screenXY, vertex.uMouse))} :
       \E repulsionStrength \in {RepulsionMagnitude(distance, vertex.uInteractionRadius,
                                                    vertex.uRepulsionStrength)} :
       \E direction \in Normalize(VSub(vertex.screenXY, vertex.uMouse)) :
       \E repulsion \in {VScale(direction, repulsionStrength)} :
           vertex' = [pc |-> "out",
                      screenXY |-> vertex.screenXY,
                      restingXY |-> vertex.restingXY,
                      uMouse |-> vertex.uMouse,
                      uInteractionRadius |-> vertex.uInteractionRadius,
                      uRepulsionStrength |-> vertex.uRepulsionStrength,
                      distance |-> distance,
                      repulsionStrength |-> repulsionStrength,
                      direction |-> direction,
                      repulsion |-> repulsion,
                      finalXY |-> VAdd(vertex.restingXY, repulsion)]
    /\ UNCHANGED <<hostVars, fragment>>

VertexNext == ShadeVertex

VertexSpec == VertexInit /\ [][VertexNext]_vars

(***************************************************************************)
(* The fragment stage.                                                     *)
(***************************************************************************)
RMax(a, b) == IF RLess(a, b) THEN b ELSE a

RMin(a, b) == IF RLess(b, a) THEN b ELSE a

\* GLSL clamp(x, lo, hi) = min(max(x, lo), hi)
Clamp(x, lo, hi) == RMin(RMax(x, lo), hi)

\* Variant of Smoothstep without the Hermite polynomial.
SmoothstepLinear(edge0, edge1, x) ==
    Clamp(RDiv(RSub(x, edge0), RSub(edge1, edge0)), Num(0), Num(1))

\* GLSL smoothstep(edge0, edge1, x)
Smoothstep(edge0, edge1, x) ==
    LET t == Clamp(RDiv(RSub(x, edge0), RSub(edge1, edge0)), Num(0), Num(1))
    IN  RMul(RMul(t, t), RSub(Num(3), RMul(Num(2), t)))

\* gl_PointCoord, on the grid; the model runs the fragments whose distance
\* from the centre of the sprite is rational.
PointCoords ==
    {pc \in {<<Q(i, 2 * PointCoordHalfSteps), Q(j, 2 * PointCoordHalfSteps)>> :
                i \in 0..(2 * PointCoordHalfSteps), j \in 0..(2 * PointCoordHalfSteps)} :
        HasSqrt(SquaredLength(VSub(pc, <<Q(1, 2), Q(1, 2)>>)))}

VaryingColors == {Color(Hex_ff0080), Color(Hex_00ffff)}

FragmentInit ==
    /\ HostInit
    /\ vertex = Idle
    /\ fragment \in {[pc |-> "in", gl_PointCoord |-> pc, vColor |-> c] :
                        pc \in PointCoords, c \in VaryingColors}

\* main() of the fragment shader.
ShadeFragment ==
    /\ fragment.pc = "in"
    /\ \E dist \in {Length(VSub(fragment.gl_PointCoord, <<Q(5, 10), Q(5, 10)>>))} :
       \E alpha \in {RSub(Num(1), Smoothstep(Q(45, 100), Q(5, 10), dist))} :
           fragment' = [pc |-> "out",
                        gl_PointCoord |-> fragment.gl_PointCoord,
                        vColor |-> fragment.vColor,
                        dist |-> dist,
                        alpha |-> alpha,
                        discarded |-> RLess(alpha, Q(1, 100)),
                        gl_FragColor |-> IF RLess(alpha, Q(1, 100)) THEN <<>>
                                         ELSE <<fragment.vColor.r, fragment.vColor.g,
                                                fragment.vColor.b, alpha>>]
    /\ UNCHANGED <<hostVars, vertex>>

FragmentNext == ShadeFragment

FragmentSpec == FragmentInit /\ [][FragmentNext]_vars


(***************************************************************************)
(* Properties.                                                             *)
(***************************************************************************)
Origin == <<Num(0), Num(0)>>

MouseNow == <<heap[mouse].x, heap[mouse].y>>

Regenerated == \E k \in DOMAIN trace : trace[k] = "scene.remove"

Drawn == {drawCall.objects[k] : k \in DOMAIN drawCall.objects}

Field == heap[geometry].attributes

\* C1: at every draw call the interactionRadius, repulsionStrength, color1
\* and color2 the shading stage reads are the values the control panel's
\* parameter set holds at that moment, also after a particleCount change has
\* regenerated the field.
C1_DrawReadsPanelValues ==
    drawCall.issued =>
        \A d \in Drawn :
            /\ d.uInteractionRadius = params.interactionRadius
            /\ d.uRepulsionStrength = params.repulsionStrength
            /\ d.uColor1 = Color(params.color1)
            /\ d.uColor2 = Color(params.color2)

\* C2: the live field has exactly PARTICLE_COUNT particles (the count the
\* panel holds), each of its three attributes describes that many particles,
\* entry i of each attribute comes from iteration i of the generating loop,
\* and the scene holds exactly one field, the current one.
C2_FieldOfExactlyN ==
    /\ PARTICLE_COUNT = params.particleCount
    /\ Len(scene) = 1
    /\ scene[1] = particleOrb
    /\ heap[particleOrb].geometry = geometry
    /\ heap[particleOrb].material = material
    /\ Field.position.count = Num(PARTICLE_COUNT)
    /\ Field.restingPosition.count = Num(PARTICLE_COUNT)
    /\ Field.aRandom.count = Num(PARTICLE_COUNT)
    /\ Len(Field.position.array) = 3 * PARTICLE_COUNT
    /\ Len(Field.restingPosition.array) = 3 * PARTICLE_COUNT
    /\ Len(Field.aRandom.array) = PARTICLE_COUNT
    /\ Len(randomLog) = 4 * PARTICLE_COUNT
    /\ \A i \in 0..(PARTICLE_COUNT - 1) :
          LET theta == RMul(randomLog[4 * i + 1], Num(2))
              phi   == AcosPi(RSub(RMul(Num(2), randomLog[4 * i + 2]), Num(1)))
              r     == RMul(Cbrt(randomLog[4 * i + 3]), Q(3, 2))
              rest  == SubSeq(Field.restingPosition.array, 3 * i + 1, 3 * i + 3)
          IN  /\ rest = <<RMul(r, RMul(SinPi(phi), CosPi(theta))),
                          RMul(r, RMul(SinPi(phi), SinPi(theta))),
                          RMul(r, CosPi(phi))>>
              /\ SubSeq(Field.position.array, 3 * i + 1, 3 * i + 3) = rest
              /\ Field.aRandom.array[i + 1] = randomLog[4 * i + 4]

C2_Witness ==
    /\ Regenerated
    /\ PARTICLE_COUNT # DefaultCount
    /\ Len(scene) = 1
    /\ Field.restingPosition.count = Num(PARTICLE_COUNT)

Releases == {"geometry.dispose", "material.dispose"}

Builds == {"new BufferGeometry", "new ShaderMaterial", "new Points"}

C5_DrawRendersCurrentField ==
    drawCall.issued =>
        /\ Len(drawCall.objects) = 1
        /\ \A d \in Drawn :
              /\ d.object = particleOrb
              /\ d.geometry = geometry
              /\ d.material = material
              /\ d.count = Num(params.particleCount)
              /\ d.geometryDisposed = FALSE
              /\ d.materialDisposed = FALSE
              /\ Len(d.restingPosition) = 3 * params.particleCount
              /\ Len(d.aRandom) = params.particleCount
              /\ d.restingPosition = Field.restingPosition.array
              /\ \A i \in 1..params.particleCount : d.aRandom[i] = randomLog[4 * i]

C5_Witness ==
    /\ Regenerated
    /\ drawCall.issued
    /\ PARTICLE_COUNT < DefaultCount
    /\ \E d \in Drawn : d.count = Num(PARTICLE_COUNT)

AnyMouseMove == \E p \in Pointers : MouseMove(p[1], p[2])

\* C7: a pointer-moved event sets the cursor to the NDC image of its
\* coordinates, a pointer-left event sets it to (0, 0), no other step changes
\* it, and every draw call reads the cursor as it then is.
C7_CursorLastWriteWins ==
    /\ [][/\ \A p \in Pointers :
                MouseMove(p[1], p[2]) =>
                    /\ heap'[mouse].x[2] > 0
                    /\ heap'[mouse].x[1] * window.innerWidth =
                          (2 * p[1] - window.innerWidth) * heap'[mouse].x[2]
                    /\ heap'[mouse].y[2] > 0
                    /\ heap'[mouse].y[1] * window.innerHeight =
                          (window.innerHeight - 2 * p[2]) * heap'[mouse].y[2]
          /\ MouseLeave => heap'[mouse] = Vector2(Num(0), Num(0))
          /\ heap'[mouse] # heap[mouse] => AnyMouseMove \/ MouseLeave]_vars
    /\ [](drawCall.issued => \A d \in Drawn : d.uMouse = MouseNow)

C7_Witness ==
    /\ Regenerated
    /\ drawCall.issued
    /\ MouseNow # Origin
    /\ \E d \in Drawn : d.uMouse = MouseNow /\ d.material = material

\* A step of any handler but the particleCount one.
OtherStep ==
    \/ AnyMouseMove
    \/ MouseLeave
    \/ \E c \in BackgroundColors : BackgroundColorChange(c)
    \/ \E c \in Color1s : Color1Change(c)
    \/ \E c \in Color2s : Color2Change(c)
    \/ \E r \in Radii : InteractionRadiusChange(r)
    \/ \E v \in Strengths : RepulsionStrengthChange(v)
    \/ \E now \in elapsed..MaxTime : animate(now)
    \/ \E size \in WindowSizes : onWindowResize(size)

\* C9: frames, pointer events, resizes and changes of the colours, of
\* interactionRadius and of repulsionStrength leave the particle count and
\* every particle's position, rest position and random seed as they are:
\* only a regeneration changes them.
C9_FieldChangesOnlyByRegeneration ==
    [][\/ /\ PARTICLE_COUNT' = PARTICLE_COUNT
          /\ geometry' = geometry
          /\ heap'[geometry'].attributes = heap[geometry].attributes
       \/ ~OtherStep]_vars

C9_Witness ==
    /\ ~Regenerated
    /\ drawCall.issued
    /\ elapsed > 0
    /\ MouseNow # Origin
    /\ rendererSize # <<4, 2>>
    /\ params.color1 # Hex_ff0080
    /\ params.color2 # Hex_00ffff
    /\ params.interactionRadius # Q(8, 10)
    /\ params.repulsionStrength # Q(5, 10)
    /\ bodyBackground # <<>>

\* C10: the uTime of every draw call is the clock's reading of that frame,
\* which is no less than the uTime of the draw call before it, also when the
\* material is a fresh one whose uTime is 0.
C10_TimeFollowsClock ==
    /\ [](drawCall.issued => \A d \in Drawn : d.uTime = Num(elapsed))
    /\ [][drawCall'.issued =>
             \A d \in {drawCall'.objects[k] : k \in DOMAIN drawCall'.objects} :
                 /\ RLeq(Num(elapsed), d.uTime)
                 /\ d.uTime = heap'[material'].uniforms.uTime]_vars

C10_Witness ==
    /\ Regenerated
    /\ drawCall.issued
    /\ elapsed > 0
    /\ \E d \in Drawn : d.uTime = Num(elapsed) /\ d.material = material

\* C3: a vertex whose screen position coincides with the cursor is not
\* displaced: its displacement is the zero vector and its position is the
\* resting position, free of NaN.
C3_NoDisplacementAtCursor ==
    (vertex.pc = "out" /\ vertex.distance = Num(0)) =>
        /\ vertex.repulsion = Origin
        /\ vertex.finalXY = vertex.restingXY

Distances == {Q(k, 20) : k \in 0..(3 * GridMax)}

\* C6: the displacement magnitude is (1 - d/interactionRadius) *
\* repulsionStrength below interactionRadius and 0 from there on; it does
\* not increase with d, is repulsionStrength at d = 0, and is the length of
\* the displacement applied.
C6_LinearFalloff ==
    vertex.pc = "out" =>
        LET d == vertex.distance
            R == vertex.uInteractionRadius
            S == vertex.uRepulsionStrength
            m == vertex.repulsionStrength
        IN  /\ RLess(d, R) => RMul(m, R) = RMul(RSub(R, d), S)
            /\ RLeq(R, d) => m = Num(0)
            /\ d = Num(0) => m = S
            /\ RLeq(Num(0), m) /\ RLeq(m, S)
            /\ \A d2 \in Distances :
                  /\ RLeq(d, d2) => RLeq(RepulsionMagnitude(d2, R, S), m)
                  /\ RLeq(d2, d) => RLeq(m, RepulsionMagnitude(d2, R, S))
            /\ d # Num(0) => SquaredLength(vertex.repulsion) = RMul(m, m)

C6_Witness ==
    /\ vertex.pc = "out"
    /\ RLess(Num(0), vertex.distance)
    /\ RLess(vertex.distance, vertex.uInteractionRadius)
    /\ RLess(Num(0), vertex.repulsionStrength)
    /\ RLess(vertex.repulsionStrength, vertex.uRepulsionStrength)

\* C8: alpha is 1 - smoothstep(0.45, 0.5, dist): 1 up to 0.45, 0 from 0.5 on,
\* 1 - t*t*(3 - 2*t) with t = (dist - 0.45) / 0.05 in between; so it is 1 at
\* 0.4, strictly between 0 and 1 at 0.48 and below 0.01 at 0.6; a fragment
\* is discarded when alpha is below 0.01 and emitted with that alpha
\* otherwise.
C8_AlphaMask ==
    fragment.pc = "out" =>
        LET dist  == fragment.dist
            alpha == fragment.alpha
            t     == RMul(RSub(dist, Q(9, 20)), Num(20))
        IN  /\ RLeq(dist, Q(9, 20)) => alpha = Num(1)
            /\ RLeq(Q(1, 2), dist) => alpha = Num(0)
            /\ (RLess(Q(9, 20), dist) /\ RLess(dist, Q(1, 2))) =>
                  alpha = RAdd(RSub(Num(1), RMul(Num(3), RMul(t, t))),
                               RMul(Num(2), RMul(t, RMul(t, t))))
            /\ dist = Q(4, 10) => alpha = Num(1)
            /\ dist = Q(48, 100) => RLess(Num(0), alpha) /\ RLess(alpha, Num(1))
            /\ dist = Q(6, 10) => RLess(alpha, Q(1, 100)) /\ fragment.discarded
            /\ fragment.discarded <=> ~RLeq(Q(1, 100), alpha)
            /\ fragment.discarded <=> fragment.gl_FragColor = <<>>
            /\ ~fragment.discarded =>
                  fragment.gl_FragColor = <<fragment.vColor.r, fragment.vColor.g,
                                            fragment.vColor.b, alpha>>

C8_Witness ==
    /\ fragment.pc = "out"
    /\ fragment.dist = Q(48, 100)
    /\ ~fragment.discarded
    /\ RLess(fragment.alpha, Num(1))

====
